---- MODULE Spec2Model ----
(***************************************************************************)
(* A model of merge_epg.py: the channel-name normalisation (clean_text),   *)
(* the master list index (load_master_list), the streaming feed walk       *)
(* (parse_xml_stream), the feed loop of main and the document writer       *)
(* (save_merged_xml).                                                      *)
(*                                                                         *)
(* A Python str is a sequence of one-character strings; None is the value  *)
(* None.  A timestamp is an integer number of time units.                  *)
(***************************************************************************)
EXTENDS Integers, Sequences, FiniteSets, TLC

VARIABLES
    master_file,            \* the lines of master_channels.txt (an input)
    now,                    \* the value datetime.utcnow() returns (an input)
    pc,                     \* where main() is
    master_cleaned,         \* main: dict clean_text(line) -> line
    master_display,         \* main: list of master lines
    allowed_master_channels,\* main: set of cleaned master lines
    all_channel_ids,        \* main: set of accepted ids
    all_programmes,         \* main: list of retained programme elements
    channel_id_to_display,  \* the module global dict id -> canonical name
    seen_programmes,        \* parse_xml_stream.seen_programmes
    w,                      \* the locals of the running parse_xml_stream call
    nfeeds,                 \* how many entries of sources the loop has taken
    parsed,                 \* how many elements iterparse has delivered in this run
    output,                 \* the document save_merged_xml wrote, or None
    ref,                    \* the same run over the well-formed feeds alone
    run,                    \* which call of main() in this process this is
    hist,                   \* the feed events of the first call, when recorded
    replay,                 \* whether main() is called a second time on the same inputs
    first_output,           \* the document the first call of main() wrote
    call                    \* a function called on its own: its arguments and results

\* the variables of a run of main()
mainvars == <<master_file, now, pc, master_cleaned, master_display,
              allowed_master_channels, all_channel_ids, all_programmes,
              channel_id_to_display, seen_programmes, w, nfeeds, parsed, output,
              ref, run, hist, replay, first_output>>

vars == <<mainvars, call>>

\* None: a sequence that is no str, since "None" is no character
None == <<"None">>

-----------------------------------------------------------------------------
(* Bounds of the model.                                                    *)

\* the most entries of epg_sources.txt a run takes
MaxFeeds == 2
\* the most elements the feeds of one run deliver in total
MaxElems == 4
\* the same two bounds when the run is repeated on recorded inputs
MaxReplayFeeds == 1
MaxReplayElems == 2

-----------------------------------------------------------------------------
(* Characters and strings.                                                 *)

Uppers == <<"A","B","C","D","E","F","G","H","I","J","K","L","M",
            "N","O","P","Q","R","S","T","U","V","W","X","Y","Z">>
Lowers == <<"a","b","c","d","e","f","g","h","i","j","k","l","m",
            "n","o","p","q","r","s","t","u","v","w","x","y","z">>
Digits == <<"0","1","2","3","4","5","6","7","8","9">>

\* the characters of the model in code point order
CodePoints == <<" ", "#", "&", "-", ".">> \o Digits \o Uppers \o <<"_">> \o Lowers

Range(s) == {s[i] : i \in DOMAIN s}

\* ord(c)
CodeOf == [c \in Range(CodePoints) |-> CHOOSE i \in DOMAIN CodePoints : CodePoints[i] = c]
Code(c) == CodeOf[c]

\* \w of the re module
WordChars == Range(Uppers) \cup Range(Lowers) \cup Range(Digits) \cup {"_"}
IsWord(c) == c \in WordChars
\* \s of the re module
IsSpace(c) == c = " "

\* str.lower, one character
LowerOf == [c \in Range(Uppers) |-> Lowers[CHOOSE i \in DOMAIN Uppers : Uppers[i] = c]]
LowerChar(c) == IF c \in DOMAIN LowerOf THEN LowerOf[c] ELSE c

\* str.lower
Lower(s) == [i \in DOMAIN s |-> LowerChar(s[i])]

\* str < str of Python: lexicographic on code points
RECURSIVE StrLess(_, _)
StrLess(a, b) ==
    IF b = <<>> THEN FALSE
    ELSE IF a = <<>> THEN TRUE
    ELSE IF a[1] # b[1] THEN Code(a[1]) < Code(b[1])
    ELSE StrLess(Tail(a), Tail(b))

\* sorted(set of str)
RECURSIVE Sorted(_)
Sorted(S) ==
    IF S = {} THEN <<>>
    ELSE LET m == CHOOSE x \in S : \A y \in S \ {x} : StrLess(x, y)
         IN  <<m>> \o Sorted(S \ {m})

\* s[i:j] of Python with 1-based inclusive bounds
Slice(s, i, j) == SubSeq(s, i, j)

\* the word is found inside longer words too
WordAt_NoBoundary(s, wd, i) ==
    /\ i + Len(wd) - 1 <= Len(s)
    /\ Slice(s, i, i + Len(wd) - 1) = wd

\* whether the word wd stands in s at position i between two \b
WordAt(s, wd, i) ==
    /\ i + Len(wd) - 1 <= Len(s)
    /\ s[i] = wd[1]
    /\ Slice(s, i, i + Len(wd) - 1) = wd
    /\ (i = 1 \/ ~IsWord(s[i - 1]))
    /\ (i + Len(wd) > Len(s) \/ ~IsWord(s[i + Len(wd)]))

\* re.sub(r"\b" + wd + r"\b", " ", s): left to right, matches do not overlap
RECURSIVE SubWordFrom(_, _, _)
SubWordFrom(s, wd, i) ==
    IF i > Len(s) THEN <<>>
    ELSE IF WordAt(s, wd, i) THEN <<" ">> \o SubWordFrom(s, wd, i + Len(wd))
    ELSE <<s[i]>> \o SubWordFrom(s, wd, i + 1)

SubWord(s, wd) == SubWordFrom(s, wd, 1)

\* str.replace of a single character by a string
RECURSIVE ReplaceChar(_, _, _)
ReplaceChar(s, c, by) ==
    IF s = <<>> THEN <<>>
    ELSE (IF s[1] = c THEN by ELSE <<s[1]>>) \o ReplaceChar(Tail(s), c, by)

\* regex_remove.sub(" ", s) with regex_remove = [^\w\s]
RegexRemove(s) == [i \in DOMAIN s |-> IF IsWord(s[i]) \/ IsSpace(s[i]) THEN s[i] ELSE " "]

\* re.sub(r"\s+", " ", s)
RECURSIVE CollapseSpaces(_)
CollapseSpaces(s) ==
    IF s = <<>> THEN <<>>
    ELSE IF IsSpace(s[1])
         THEN IF Len(s) > 1 /\ IsSpace(s[2])
              THEN CollapseSpaces(Tail(s))
              ELSE <<" ">> \o CollapseSpaces(Tail(s))
         ELSE <<s[1]>> \o CollapseSpaces(Tail(s))

\* str.strip
RECURSIVE LStrip(_)
LStrip(s) == IF s # <<>> /\ IsSpace(s[1]) THEN LStrip(Tail(s)) ELSE s
RECURSIVE RStrip(_)
RStrip(s) == IF s # <<>> /\ IsSpace(s[Len(s)]) THEN RStrip(Slice(s, 1, Len(s) - 1)) ELSE s
Strip(s) == RStrip(LStrip(s))

\* str.startswith
StartsWith(s, p) == Len(s) >= Len(p) /\ Slice(s, 1, Len(p)) = p

-----------------------------------------------------------------------------
(* clean_text                                                              *)

remove_words == << <<"h","d">>, <<"h","d","t","v">>, <<"t","v">>,
                   <<"c","h","a","n","n","e","l">>,
                   <<"n","e","t","w","o","r","k">>,
                   <<"e","a","s","t">>, <<"w","e","s","t">> >>

\* the loop over remove_words, from the k-th word on
RECURSIVE RemoveWordsFrom(_, _)
RemoveWordsFrom(s, k) ==
    IF k > Len(remove_words) THEN s
    ELSE RemoveWordsFrom(SubWord(s, remove_words[k]), k + 1)

clean_text(name) ==
    IF name = None \/ name = <<>> THEN <<>>
    ELSE LET a == Lower(name)
             b == RemoveWordsFrom(a, 1)
             c == ReplaceChar(ReplaceChar(b, "&", <<" ","a","n","d"," ">>), "-", <<" ">>)
             d == RegexRemove(c)
             e == CollapseSpaces(d)
         IN  Strip(e)

-----------------------------------------------------------------------------
(* The strings of the model.                                               *)

s_HBO == <<"H","B","O">>
s_CNN == <<"C","N","N">>
s_ESPN == <<"E","S","P","N">>
s_HBO_East == <<"H","B","O"," ","E","a","s","t">>
s_comment == <<"#"," ","p","r","e","m","i","u","m">>
s_hbo_us2 == <<"h","b","o",".","u","s","2">>
s_west_cnn == <<"w","e","s","t",".","c","n","n">>
s_WHUT == <<"W","H","U","T">>
s_hbo2 == <<"h","b","o","2">>
s_espn_hd == <<"e","s","p","n",".","h","d">>
s_HBO_HD == <<"H","B","O"," ","H","D">>
s_CNN_West == <<"C","N","N"," ","W","e","s","t">>
s_PBS == <<"P","B","S">>
s_ESPN_HD == <<"E","S","P","N"," ","H","D">>
s_whut == <<"w","h","u","t">>
s_tlc == <<"t","l","c">>
s_TLC == <<"T","L","C">>
s_A == <<"A">>
s_zone == <<" ","+","0","0","0","0">>

-----------------------------------------------------------------------------
(* Dictionaries: a dict is a function on its keys.                         *)

EmptyDict == <<>>

\* d[k] = v
DictSet(d, k, v) == [x \in DOMAIN d \cup {k} |-> IF x = k THEN v ELSE d[x]]

\* d.update(o)
DictUpdate(d, o) == [x \in DOMAIN d \cup DOMAIN o |-> IF x \in DOMAIN o THEN o[x] ELSE d[x]]

\* d.get(k, default)
DictGet(d, k, default) == IF k \in DOMAIN d THEN d[k] ELSE default

\* the entries of EPG_ALIASES the model keeps
EPG_ALIASES == (s_whut :> s_WHUT) @@ (s_tlc :> s_TLC)

-----------------------------------------------------------------------------
(* load_master_list                                                        *)

\* the loop over the lines of the file, from line k on, r the two results so far
RECURSIVE LoadFrom(_, _, _)
LoadFrom(lines, k, r) ==
    IF k > Len(lines) THEN r
    ELSE LET line == Strip(lines[k])
         IN  IF line # <<>> /\ ~StartsWith(line, <<"#">>)
             THEN LoadFrom(lines, k + 1,
                      [cleaned |-> DictSet(r.cleaned, clean_text(line), line),
                       display |-> Append(r.display, line)])
             ELSE LoadFrom(lines, k + 1, r)

load_master_list(lines) == LoadFrom(lines, 1, [cleaned |-> EmptyDict, display |-> <<>>])

-----------------------------------------------------------------------------
(* The elements a feed can deliver.                                        *)

\* the value of timedelta(days=days_limit), days_limit the default of parse_xml_stream
days_limit == 3

\* what datetime.utcnow() can return
Nows == {0}

\* a start attribute: whether strptime reads its first 14 characters as a
\* time, the time it reads, and the characters after them
StartStr(t) == [kind |-> "time", stamp |-> t, rest |-> s_zone]
\* a start attribute whose first 14 characters strptime rejects
GarbageStart == [kind |-> "garbage", stamp |-> 0, rest |-> s_zone]
\* a start attribute of 11 to 13 digits such as "20240101123", which strptime
\* reads as a time by taking some of the fields as one digit
ShortStart(t) == [kind |-> "short", stamp |-> t, rest |-> <<>>]
\* elem.attrib.get("start") of an element without the attribute
NoStart == [kind |-> "None", stamp |-> 0, rest |-> <<>>]

Channel(id, display) == [tag |-> "channel", id |-> id, display |-> display]
Programme(channel, start, title) ==
    [tag |-> "programme", channel |-> channel, start |-> start, title |-> title]

ChannelElems ==
    { Channel(s_hbo_us2, s_HBO_HD),
      Channel(s_west_cnn, s_CNN_West),
      Channel(s_WHUT, s_PBS),
      Channel(s_hbo_us2, s_CNN),
      Channel(s_hbo2, s_HBO),
      Channel(s_ESPN, None) }

ProgrammeElems ==
    { Programme(s_hbo_us2, StartStr(3), s_A),
      Programme(s_hbo_us2, StartStr(4), s_A),
      Programme(s_hbo_us2, GarbageStart, s_A),
      Programme(s_hbo_us2, ShortStart(3), s_A),
      Programme(s_WHUT, StartStr(3), None),
      Programme(s_west_cnn, StartStr(3), s_A) }

\* the contents master_channels.txt can have
MasterFiles ==
    { <<s_comment, s_HBO, <<>>, s_CNN>>,
      <<s_ESPN, s_HBO_East>> }

-----------------------------------------------------------------------------
(* parse_xml_stream                                                        *)

\* no element
NoElem == [tag |-> "none"]

\* the locals of a call that has just computed cutoff
NewWalk(clock, local_only) ==
    [allowed_channel_ids |-> {},
     channel_id_to_display |-> EmptyDict,
     programmes |-> <<>>,
     cutoff |-> clock + days_limit,
     local_only |-> local_only,
     elem |-> NoElem,
     feed |-> 0,
     pos |-> 0]

\* no call is running
NoWalk == NewWalk(0, FALSE)

\* the text is taken even when there is none
OrElse_NoDefault(text, default) == text

\* elem.findtext(...) or default
OrElse(text, default) == IF text = None \/ text = <<>> THEN default ELSE text

\* datetime.strptime(start_str[:14], "%Y%m%d%H%M%S") raises
StrptimeRaises(start_str) == start_str.kind \notin {"time", "short"}
\* and what it returns when it does not
Strptime(start_str) == start_str.stamp

\* the branch elem.tag == "channel" on the locals wk
ChannelStep(wk, elem, mc, amc) ==
    LET raw_id == elem.id
        display == OrElse(elem.display, raw_id)
        cleaned_display == clean_text(display)
        canonical_id == Lower(raw_id)
    IN  IF wk.local_only /\ cleaned_display \notin amc
        THEN wk
        ELSE IF canonical_id \in DOMAIN EPG_ALIASES
        THEN [wk EXCEPT
                !.channel_id_to_display = DictSet(@, canonical_id, EPG_ALIASES[canonical_id]),
                !.allowed_channel_ids = @ \cup {canonical_id}]
        ELSE IF cleaned_display \in DOMAIN mc
        THEN [wk EXCEPT
                !.channel_id_to_display = DictSet(@, canonical_id, mc[cleaned_display]),
                !.allowed_channel_ids = @ \cup {canonical_id}]
        ELSE wk

\* the key of a programme element in seen_programmes
ProgKey(elem) == <<Lower(elem.channel), elem.start, OrElse(elem.title, <<>>)>>

\* the window is open at its end
InWindow_Strict(start_dt, cutoff) == start_dt < cutoff

\* the test start_dt <= cutoff
InWindow(start_dt, cutoff) == start_dt <= cutoff

\* whether the branch elem.tag == "programme" reaches the window test
PassesChecks(wk, elem) ==
    LET raw_channel == Lower(elem.channel)
        start_str == elem.start
    IN  /\ raw_channel # <<>>
        /\ start_str # NoStart
        /\ raw_channel \in wk.allowed_channel_ids
        /\ ~StrptimeRaises(start_str)

\* whether the branch appends the element to programmes
Keeps(wk, seen, elem) ==
    /\ PassesChecks(wk, elem)
    /\ InWindow(Strptime(elem.start), wk.cutoff)
    /\ ProgKey(elem) \notin seen

\* a retained programme: the serialised element, with the feed and the
\* position in the feed it was read at
Kept(wk, elem) == [elem |-> elem, feed |-> wk.feed, pos |-> wk.pos]

\* programmes.append(ET.tostring(elem, encoding="utf-8"))
AppendProgramme(programmes, p) == Append(programmes, p)

\* the key is not added
AddSeen_Forgotten(seen, key) == seen

\* parse_xml_stream.seen_programmes.add(prog_key)
AddSeen(seen, key) == seen \cup {key}

\* the branch elem.tag == "programme" on the locals wk and the set seen
ProgrammeStep(wk, seen, elem) ==
    IF Keeps(wk, seen, elem)
    THEN [w |-> [wk EXCEPT !.programmes = AppendProgramme(@, Kept(wk, elem))],
          seen |-> AddSeen(seen, ProgKey(elem))]
    ELSE [w |-> wk, seen |-> seen]

\* the loop takes the next element the feed delivers
Advance(wk, elem) == [wk EXCEPT !.pos = @ + 1, !.elem = elem]

-----------------------------------------------------------------------------
(* save_merged_xml                                                         *)

\* the loop over sorted(channel_ids), from the k-th id on
RECURSIVE ChannelsFrom(_, _, _)
ChannelsFrom(ids, k, id_to_display) ==
    IF k > Len(ids) THEN <<>>
    ELSE <<Channel(ids[k], DictGet(id_to_display, ids[k], ids[k]))>>
         \o ChannelsFrom(ids, k + 1, id_to_display)

\* the elements written between <tv> and </tv>, in the order written
save_merged_xml(channel_ids, programmes, id_to_display) ==
    ChannelsFrom(Sorted(channel_ids), 1, id_to_display) \o programmes

-----------------------------------------------------------------------------
(* main                                                                    *)

\* all_channel_ids.update(channel_ids)
UpdateIds(all, ids) == all \cup ids

\* the new programmes are put in front
Extend_InFront(all, programmes) == programmes \o all

\* all_programmes.extend(programmes)
Extend(all, programmes) == all \o programmes

\* the state of a run that has taken no feed yet, seen the dedup set it finds
FreshRun(seen) ==
    [seen |-> seen, snap |-> seen, w |-> NoWalk,
     all_channel_ids |-> {}, all_programmes |-> <<>>,
     channel_id_to_display |-> EmptyDict]

\* the bounds in force
FeedBound == IF replay THEN MaxReplayFeeds ELSE MaxFeeds
ElemBound == IF replay THEN MaxReplayElems ELSE MaxElems

\* a feed event: the first call of main() draws it freely, and records it when
\* a second call is to come; the second call takes the recorded ones in order
Event(op, elem) == [op |-> op, elem |-> elem]
Take(op, elem) ==
    IF run = 1
    THEN hist' = IF replay THEN Append(hist, Event(op, elem)) ELSE hist
    ELSE /\ hist # <<>>
         /\ Head(hist).op = op
         /\ Head(hist).elem = elem
         /\ hist' = Tail(hist)

\* no function is called on its own
NoCall == [op |-> "none"]

InWalk == pc \in {"walk", "local"}
AfterWalk == IF pc = "walk" THEN "sources" ELSE "save"

TypeOK ==
    /\ pc \in {"start", "sources", "walk", "local", "save", "done"}
    /\ master_file \in MasterFiles
    /\ now \in Nows
    /\ nfeeds \in 0..MaxFeeds
    /\ parsed \in 0..MaxElems
    /\ run \in {1, 2}
    /\ replay \in BOOLEAN

InitWith(again) ==
    /\ master_file \in MasterFiles
    /\ now \in Nows
    /\ pc = "start"
    /\ master_cleaned = EmptyDict
    /\ master_display = <<>>
    /\ allowed_master_channels = {}
    /\ all_channel_ids = {}
    /\ all_programmes = <<>>
    /\ channel_id_to_display = EmptyDict
    /\ seen_programmes = {}
    /\ w = NoWalk
    /\ nfeeds = 0
    /\ parsed = 0
    /\ output = None
    /\ ref = FreshRun({})
    /\ run = 1
    /\ hist = <<>>
    /\ replay = again
    /\ first_output = None
    /\ call = NoCall

Init == InitWith(FALSE)

\* main() up to the loop over sources
EnterMain ==
    LET m == load_master_list(master_file)
    IN  /\ channel_id_to_display' = EmptyDict
        /\ master_cleaned' = m.cleaned
        /\ master_display' = m.display
        /\ allowed_master_channels' = {clean_text(m.display[i]) : i \in DOMAIN m.display}
        /\ all_channel_ids' = {}
        /\ all_programmes' = <<>>
        /\ nfeeds' = 0
        /\ parsed' = 0
        /\ w' = NoWalk
        /\ ref' = FreshRun(ref.seen)
        /\ pc' = "sources"

Main ==
    /\ pc = "start"
    /\ EnterMain
    /\ UNCHANGED <<call, master_file, now, seen_programmes, output, run, hist, replay,
                   first_output>>

\* fetch_content returned None for the next source: continue
FetchFail ==
    /\ pc = "sources"
    /\ nfeeds < FeedBound
    /\ Take("fetch_fail", NoElem)
    /\ nfeeds' = nfeeds + 1
    /\ UNCHANGED <<call, master_file, now, pc, master_cleaned, master_display,
                   allowed_master_channels, all_channel_ids, all_programmes,
                   channel_id_to_display, seen_programmes, w, parsed, output,
                   ref, run, replay, first_output>>

\* parse_xml_stream is called on the next source
BeginWalk ==
    /\ pc = "sources"
    /\ nfeeds < FeedBound
    /\ Take("walk", NoElem)
    /\ nfeeds' = nfeeds + 1
    /\ w' = [NewWalk(now, FALSE) EXCEPT !.feed = nfeeds + 1]
    /\ ref' = [ref EXCEPT !.w = [NewWalk(now, FALSE) EXCEPT !.feed = nfeeds + 1],
                          !.snap = ref.seen]
    /\ pc' = "walk"
    /\ UNCHANGED <<call, master_file, now, master_cleaned, master_display,
                   allowed_master_channels, all_channel_ids, all_programmes,
                   channel_id_to_display, seen_programmes, parsed, output,
                   run, replay, first_output>>

\* the sources are exhausted and fetch_content returned None for the local feed
LocalFetchFail ==
    /\ pc = "sources"
    /\ Take("local_fetch_fail", NoElem)
    /\ pc' = "save"
    /\ UNCHANGED <<call, master_file, now, master_cleaned, master_display,
                   allowed_master_channels, all_channel_ids, all_programmes,
                   channel_id_to_display, seen_programmes, w, nfeeds, parsed,
                   output, ref, run, replay, first_output>>

\* the sources are exhausted and parse_xml_stream is called on the local feed
BeginLocal ==
    /\ pc = "sources"
    /\ Take("local", NoElem)
    /\ w' = [NewWalk(now, TRUE) EXCEPT !.feed = nfeeds + 1]
    /\ ref' = [ref EXCEPT !.w = [NewWalk(now, TRUE) EXCEPT !.feed = nfeeds + 1],
                          !.snap = ref.seen]
    /\ pc' = "local"
    /\ UNCHANGED <<call, master_file, now, master_cleaned, master_display,
                   allowed_master_channels, all_channel_ids, all_programmes,
                   channel_id_to_display, seen_programmes, nfeeds, parsed, output,
                   run, replay, first_output>>

\* iterparse delivers the end of a channel element
ChannelElem(elem) ==
    /\ InWalk
    /\ parsed < ElemBound
    /\ Take("channel", elem)
    /\ parsed' = parsed + 1
    /\ w' = ChannelStep(Advance(w, elem), elem, master_cleaned, allowed_master_channels)
    /\ ref' = [ref EXCEPT !.w = ChannelStep(Advance(@, elem), elem, master_cleaned,
                                            allowed_master_channels)]
    /\ UNCHANGED <<call, master_file, now, pc, master_cleaned, master_display,
                   allowed_master_channels, all_channel_ids, all_programmes,
                   channel_id_to_display, seen_programmes, nfeeds, output,
                   run, replay, first_output>>

\* iterparse delivers the end of a programme element
ProgrammeElem(elem) ==
    LET r == ProgrammeStep(Advance(w, elem), seen_programmes, elem)
        q == ProgrammeStep(Advance(ref.w, elem), ref.seen, elem)
    IN  /\ InWalk
        /\ parsed < ElemBound
        /\ Take("programme", elem)
        /\ parsed' = parsed + 1
        /\ w' = r.w
        /\ seen_programmes' = r.seen
        /\ ref' = [ref EXCEPT !.w = q.w, !.seen = q.seen]
        /\ UNCHANGED <<call, master_file, now, pc, master_cleaned, master_display,
                       allowed_master_channels, all_channel_ids, all_programmes,
                       channel_id_to_display, nfeeds, output, run, replay,
                       first_output>>

\* iterparse raises ParseError: main prints and goes on to the next feed.  The
\* run over the well-formed feeds alone never saw this feed.
ParseError ==
    /\ InWalk
    /\ Take("parse_error", NoElem)
    /\ w' = NoWalk
    /\ ref' = [ref EXCEPT !.w = NoWalk, !.seen = ref.snap]
    /\ pc' = AfterWalk
    /\ UNCHANGED <<call, master_file, now, master_cleaned, master_display,
                   allowed_master_channels, all_channel_ids, all_programmes,
                   channel_id_to_display, seen_programmes, nfeeds, parsed, output,
                   run, replay, first_output>>

\* the feed ends, parse_xml_stream returns and main merges what it returned
EndWalk ==
    /\ InWalk
    /\ Take("end", NoElem)
    /\ all_channel_ids' = UpdateIds(all_channel_ids, w.allowed_channel_ids)
    /\ all_programmes' = Extend(all_programmes, w.programmes)
    /\ channel_id_to_display' = DictUpdate(channel_id_to_display, w.channel_id_to_display)
    /\ w' = NoWalk
    /\ ref' = [ref EXCEPT
                 !.all_channel_ids = UpdateIds(@, ref.w.allowed_channel_ids),
                 !.all_programmes = Extend(@, ref.w.programmes),
                 !.channel_id_to_display = DictUpdate(@, ref.w.channel_id_to_display),
                 !.w = NoWalk]
    /\ pc' = AfterWalk
    /\ UNCHANGED <<call, master_file, now, master_cleaned, master_display,
                   allowed_master_channels, seen_programmes, nfeeds, parsed, output,
                   run, replay, first_output>>

\* save_merged_xml(all_channel_ids, all_programmes, channel_id_to_display)
Save ==
    /\ pc = "save"
    /\ output' = save_merged_xml(all_channel_ids, all_programmes, channel_id_to_display)
    /\ pc' = "done"
    /\ UNCHANGED <<call, master_file, now, master_cleaned, master_display,
                   allowed_master_channels, all_channel_ids, all_programmes,
                   channel_id_to_display, seen_programmes, w, nfeeds, parsed,
                   ref, run, hist, replay, first_output>>

\* main() is called again in the same process, on the same inputs
MainAgain ==
    /\ pc = "done"
    /\ replay
    /\ run = 1
    /\ run' = 2
    /\ first_output' = output
    /\ EnterMain
    /\ UNCHANGED <<call, master_file, now, seen_programmes, output, hist, replay>>

Next ==
    \/ Main
    \/ FetchFail
    \/ BeginWalk
    \/ LocalFetchFail
    \/ BeginLocal
    \/ \E elem \in ChannelElems : ChannelElem(elem)
    \/ \E elem \in ProgrammeElems : ProgrammeElem(elem)
    \/ ParseError
    \/ EndWalk
    \/ Save

Spec == Init /\ [][Next]_vars

InitTwice == InitWith(TRUE)
NextTwice == Next \/ MainAgain
SpecTwice == InitTwice /\ [][NextTwice]_vars

-----------------------------------------------------------------------------
(* clean_text called on its own.                                           *)

\* the most pieces a name is made of
MaxPieces == 3

s_westeros == <<"w","e","s","t","e","r","o","s">>
s_TV == <<"T","V">>

\* the pieces names are made of: the stop words, a stop word in upper case, a
\* longer word that holds one, separators and a letter
Pieces ==
    Range(remove_words)
        \cup {s_TV, s_westeros, s_A, <<" ">>, <<"-">>, <<"&">>, <<"_">>, <<".">>}

\* the strings of at most n pieces
RECURSIVE NamesOf(_)
NamesOf(n) ==
    IF n = 0 THEN {<<>>}
    ELSE LET S == NamesOf(n - 1) IN S \cup {s \o q : s \in S, q \in Pieces}

\* what clean_text can be called on
Names == NamesOf(MaxPieces) \cup {None}

\* main() is not running
NotRunning ==
    /\ master_file = <<>>
    /\ now = 0
    /\ pc = "start"
    /\ master_cleaned = EmptyDict
    /\ master_display = <<>>
    /\ allowed_master_channels = {}
    /\ all_channel_ids = {}
    /\ all_programmes = <<>>
    /\ channel_id_to_display = EmptyDict
    /\ seen_programmes = {}
    /\ w = NoWalk
    /\ nfeeds = 0
    /\ parsed = 0
    /\ output = None
    /\ ref = FreshRun({})
    /\ run = 1
    /\ hist = <<>>
    /\ replay = FALSE
    /\ first_output = None

InitClean ==
    /\ NotRunning
    /\ \E name \in Names :
          call = [op |-> "clean_text", name |-> name, calls |-> 0,
                  result |-> None, again |-> None]

\* clean_text(name)
CleanText ==
    /\ call.op = "clean_text"
    /\ call.calls = 0
    /\ call' = [call EXCEPT !.calls = 1, !.result = clean_text(call.name)]
    /\ UNCHANGED mainvars

\* clean_text of what clean_text returned
CleanTextAgain ==
    /\ call.op = "clean_text"
    /\ call.calls = 1
    /\ call' = [call EXCEPT !.calls = 2, !.again = clean_text(call.result)]
    /\ UNCHANGED mainvars

NextClean ==
    \/ CleanText
    \/ CleanTextAgain

SpecClean == InitClean /\ [][NextClean]_vars

-----------------------------------------------------------------------------
(* load_master_list and the channel branch called on their own.            *)

\* the most lines master_channels.txt has
MaxLines == 2

s_HD == <<"H","D">>
s_HBO_Family == <<"H","B","O"," ","F","a","m","i","l","y">>

\* the lines master_channels.txt is made of
MasterLines == {s_HBO, s_HBO_HD, s_HBO_Family, s_TV, s_comment}

\* the files of at most n lines
RECURSIVE FilesOf(_)
FilesOf(n) ==
    IF n = 0 THEN {<<>>}
    ELSE LET S == FilesOf(n - 1) IN S \cup {Append(f, l) : f \in S, l \in MasterLines}

\* the channel elements matched against them
MatchElems ==
    {Channel(id, display) : id \in {s_hbo2, s_WHUT},
                            display \in {s_HBO, s_HBO_Family, s_HD, None}}

InitMatch ==
    /\ NotRunning
    /\ \E lines \in FilesOf(MaxLines), elem \in MatchElems, local_only \in BOOLEAN :
          call = [op |-> "match", lines |-> lines, elem |-> elem,
                  local_only |-> local_only, step |-> 0,
                  master_cleaned |-> EmptyDict, master_display |-> <<>>,
                  allowed_master_channels |-> {}, w |-> NoWalk]

\* main() up to the loop over sources, on the file call.lines
LoadMaster ==
    /\ call.op = "match"
    /\ call.step = 0
    /\ LET m == load_master_list(call.lines)
       IN  call' = [call EXCEPT
                       !.step = 1,
                       !.master_cleaned = m.cleaned,
                       !.master_display = m.display,
                       !.allowed_master_channels =
                           {clean_text(m.display[i]) : i \in DOMAIN m.display}]
    /\ UNCHANGED mainvars

\* parse_xml_stream on a feed whose first element is the channel call.elem
MatchChannel ==
    /\ call.op = "match"
    /\ call.step = 1
    /\ call' = [call EXCEPT
                   !.step = 2,
                   !.w = ChannelStep(Advance(NewWalk(now, call.local_only), call.elem),
                                     call.elem, call.master_cleaned,
                                     call.allowed_master_channels)]
    /\ UNCHANGED mainvars

NextMatch ==
    \/ LoadMaster
    \/ MatchChannel

SpecMatch == InitMatch /\ [][NextMatch]_vars

-----------------------------------------------------------------------------
(* What the claims speak of.                                               *)

s_west == <<"w","e","s","t">>
s_pacific == <<"p","a","c","i","f","i","c">>

\* whether a name holds the whole word "west" or "pacific", in any letter case
HasWord(name, wd) == \E i \in DOMAIN name : WordAt(Lower(name), wd, i)
IsExcluded(name) == HasWord(name, s_west) \/ HasWord(name, s_pacific)

\* the name a channel element is matched by
NameOf(elem) == OrElse(elem.display, elem.id)

\* the programmes retained so far in this run
Retained == all_programmes \o w.programmes

\* the element the walk has just handled is a programme that passed the channel
\* and timestamp checks of this walk
HandledProgramme ==
    /\ InWalk
    /\ w.elem.tag = "programme"
    /\ PassesChecks(w, w.elem)

\* the element the walk has just handled was appended to programmes
HandledKept ==
    /\ w.programmes # <<>>
    /\ w.programmes[Len(w.programmes)] = Kept(w, w.elem)

-----------------------------------------------------------------------------
(* C1: a channel element whose name holds the whole word "west" or         *)
(* "pacific" is never recorded as accepted: handling it leaves the accepted *)
(* ids and the id -> canonical name map of the walk as they were.          *)
C1_ExcludedNeverAccepted ==
    [][\A elem \in ChannelElems :
          (w'.elem = elem /\ ChannelElem(elem) /\ IsExcluded(NameOf(elem)))
              => /\ w'.allowed_channel_ids = w.allowed_channel_ids
                 /\ w'.channel_id_to_display = w.channel_id_to_display]_vars

(* C2: no two retained programmes share a dedup key, in any state of a run; *)
(* a programme whose key was seen before is dropped, and one that passes    *)
(* the checks and the window with a new key is kept and its key recorded.   *)
C2_NoDuplicateKeys ==
    /\ [](\A i, j \in DOMAIN Retained :
             i # j => ProgKey(Retained[i].elem) # ProgKey(Retained[j].elem))
    /\ [][\A elem \in ProgrammeElems :
             (w'.elem = elem /\ ProgrammeElem(elem)) =>
                IF ProgKey(elem) \in seen_programmes
                THEN w'.programmes = w.programmes
                ELSE (PassesChecks(w, elem) /\ InWindow(Strptime(elem.start), w.cutoff))
                        => /\ w'.programmes = Append(w.programmes, Kept(w', elem))
                           /\ ProgKey(elem) \in seen_programmes']_vars

\* a programme of a later feed is dropped because an earlier feed's programme
\* with the same key was retained
C2_Witness ==
    /\ HandledProgramme
    /\ InWindow(Strptime(w.elem.start), w.cutoff)
    /\ ~HandledKept
    /\ \E i \in DOMAIN all_programmes :
          /\ ProgKey(all_programmes[i].elem) = ProgKey(w.elem)
          /\ all_programmes[i].feed < w.feed


(* C3: when a feed is malformed, the run still ends and the document it     *)
(* writes is the one a run over the other feeds alone writes.               *)
C3_FailedFeedContributesNothing ==
    pc = "done" =>
        output = save_merged_xml(ref.all_channel_ids, ref.all_programmes,
                                 ref.channel_id_to_display)

(* C4: a second call of main() in the same process, on the same inputs,     *)
(* writes the same document as the first.                                   *)
C4_SecondRunSameOutput ==
    (run = 2 /\ pc = "done") => output = first_output

(* C5: a programme that passes the channel and timestamp checks with a new  *)
(* key is kept if and only if its start is at most now + days_limit.        *)
C5_WindowInclusive ==
    [][\A elem \in ProgrammeElems :
          (/\ w'.elem = elem
           /\ ProgrammeElem(elem)
           /\ PassesChecks(w, elem)
           /\ ProgKey(elem) \notin seen_programmes)
              => IF Strptime(elem.start) <= now + days_limit
                 THEN w'.programmes = Append(w.programmes, Kept(w', elem))
                 ELSE w'.programmes = w.programmes]_vars

\* a programme that starts exactly at the cutoff has been kept
C5_Witness ==
    /\ HandledProgramme
    /\ Strptime(w.elem.start) = now + days_limit
    /\ HandledKept

(* C6: a channel whose lower-cased id is a key of the alias table, and whose *)
(* name is not excluded, is accepted with the alias table's canonical name,  *)
(* in every walk, the walk of the local feed included.                       *)
C6_AliasFirst ==
    [][\A elem \in ChannelElems :
          (/\ w'.elem = elem
           /\ ChannelElem(elem)
           /\ Lower(elem.id) \in DOMAIN EPG_ALIASES
           /\ ~IsExcluded(NameOf(elem)))
              => /\ Lower(elem.id) \in w'.allowed_channel_ids
                 /\ Lower(elem.id) \in DOMAIN w'.channel_id_to_display
                 /\ w'.channel_id_to_display[Lower(elem.id)] = EPG_ALIASES[Lower(elem.id)]]_vars

\* the name C7 normalises: the display name, the raw id when there is none
C7_Name(elem) == IF elem.display = None THEN elem.id ELSE elem.display

\* the master lines whose normalisation is key
C7_Matches(key) ==
    {i \in DOMAIN master_display : clean_text(master_display[i]) = key}

\* master ["ESPN", "HBO East"] and display name "ESPN HD" give "ESPN"
C7_Example ==
    LET m == load_master_list(<<s_ESPN, s_HBO_East>>)
        wk == ChannelStep(NewWalk(0, FALSE), Channel(s_espn_hd, s_ESPN_HD),
                          m.cleaned, DOMAIN m.cleaned)
    IN  /\ wk.allowed_channel_ids = {s_espn_hd}
        /\ wk.channel_id_to_display = (s_espn_hd :> s_ESPN)

(* C7: a channel whose id is no alias and whose name (the display name, or  *)
(* the raw id when there is none) normalises to the key of a master line is *)
(* accepted and mapped to a master line with that key.                      *)
C7_ExactNormalized ==
    /\ C7_Example
    /\ [][\A elem \in ChannelElems :
             LET lines == C7_Matches(clean_text(C7_Name(elem)))
             IN  (/\ w'.elem = elem
                  /\ ChannelElem(elem)
                  /\ Lower(elem.id) \notin DOMAIN EPG_ALIASES
                  /\ lines # {})
                     => /\ Lower(elem.id) \in w'.allowed_channel_ids
                        /\ Lower(elem.id) \in DOMAIN w'.channel_id_to_display
                        /\ \E i \in lines :
                              w'.channel_id_to_display[Lower(elem.id)] = master_display[i]]_vars

\* a channel without a display name has been accepted by its raw id
C7_Witness ==
    /\ InWalk
    /\ w.elem = Channel(s_ESPN, None)
    /\ Lower(s_ESPN) \in w.allowed_channel_ids
    /\ w.channel_id_to_display[Lower(s_ESPN)] = s_ESPN

(* C8: the accepted map only grows, and the canonical name recorded for an  *)
(* id never changes once it is recorded.                                    *)
C8_FirstFeedWins ==
    [][\A id \in DOMAIN channel_id_to_display :
          /\ id \in DOMAIN channel_id_to_display'
          /\ channel_id_to_display'[id] = channel_id_to_display[id]]_vars

\* the channel elements of a document
ChannelsOf(doc) == {i \in DOMAIN doc : "tag" \in DOMAIN doc[i]}
\* the programme elements of a document
ProgrammesOf(doc) == {i \in DOMAIN doc : "elem" \in DOMAIN doc[i]}

(* C9: the document written holds one channel element for each canonical    *)
(* name among the values of the accepted map, and no two for one name.      *)
C9_OneChannelPerName ==
    pc = "done" =>
        /\ \A i, j \in ChannelsOf(output) :
              i # j => output[i].display # output[j].display
        /\ {output[i].display : i \in ChannelsOf(output)}
              = {channel_id_to_display[id] : id \in DOMAIN channel_id_to_display}

\* whether the programme p was read before the programme q
ReadBefore(p, q) == p.feed < q.feed \/ (p.feed = q.feed /\ p.pos < q.pos)

(* C10: the programmes are retained, and written, in the order they were    *)
(* read (by feed, then by position in the feed), after every channel        *)
(* element of the document.                                                 *)
C10_EncounterOrder ==
    /\ \A i, j \in DOMAIN Retained : i < j => ReadBefore(Retained[i], Retained[j])
    /\ pc = "done" =>
          /\ \A i \in ChannelsOf(output), j \in ProgrammesOf(output) : i < j
          /\ \A i, j \in ProgrammesOf(output) :
                i < j => ReadBefore(output[i], output[j])
          /\ [i \in 1..Len(all_programmes) |->
                 output[i + Cardinality(ChannelsOf(output))]] = all_programmes

\* a document with two channels and the programmes of two feeds
C10_Witness ==
    /\ pc = "done"
    /\ Cardinality(ChannelsOf(output)) = 2
    /\ \E i, j \in ProgrammesOf(output) : output[i].feed < output[j].feed

\* the words of s: its longest runs of word characters, in order, cur the run
\* in progress at position i
RECURSIVE WordsFrom(_, _, _)
WordsFrom(s, i, cur) ==
    LET done == IF cur = <<>> THEN <<>> ELSE <<cur>>
    IN  IF i > Len(s) THEN done
        ELSE IF IsWord(s[i]) THEN WordsFrom(s, i + 1, Append(cur, s[i]))
        ELSE done \o WordsFrom(s, i + 1, <<>>)

WordsOf(s) == WordsFrom(s, 1, <<>>)

\* the words joined by single spaces
RECURSIVE Joined(_)
Joined(ws) ==
    IF ws = <<>> THEN <<>>
    ELSE IF Len(ws) = 1 THEN ws[1]
    ELSE ws[1] \o <<" ">> \o Joined(Tail(ws))

(* C11: clean_text returns a string for every name, and returns that string *)
(* unchanged when called on it; no word of the result is a stop word; and   *)
(* every word of the lower-cased name that is no stop word, one that holds  *)
(* a stop word ("westeros") included, is a word of the result.              *)
C11_TotalIdempotent ==
    /\ (call.op = "clean_text" /\ call.calls >= 1) =>
          LET name == IF call.name = None THEN <<>> ELSE call.name
              words == WordsOf(call.result)
          IN  /\ call.result # None
              /\ call.result = Joined(words)
              /\ \A i \in DOMAIN words : words[i] \notin Range(remove_words)
              /\ \A wd \in Range(WordsOf(Lower(name))) \ Range(remove_words) :
                    wd \in Range(words)
    /\ (call.op = "clean_text" /\ call.calls = 2) => call.again = call.result

\* "TV westeros" has been cleaned twice: the stop word is gone, the longer
\* word is whole
C11_Witness ==
    /\ call.op = "clean_text"
    /\ call.calls = 2
    /\ call.name = s_TV \o <<" ">> \o s_westeros
    /\ call.result = s_westeros
    /\ call.again = s_westeros

(* C12: a programme whose channel reference is an id accepted so far in the *)
(* run, by this feed or by an earlier one, passes the channel check: with a *)
(* start that parses and lies in the window and a new key, it is kept.      *)
C12_RunGlobalChannelCheck ==
    [][\A elem \in ProgrammeElems :
          (/\ w'.elem = elem
           /\ ProgrammeElem(elem)
           /\ Lower(elem.channel) \in all_channel_ids \cup w.allowed_channel_ids
           /\ elem.start # NoStart
           /\ ~StrptimeRaises(elem.start)
           /\ InWindow(Strptime(elem.start), w.cutoff)
           /\ ProgKey(elem) \notin seen_programmes)
              => w'.programmes = Append(w.programmes, Kept(w', elem))]_vars

\* the first line of the loaded master list that normalises to key, 0 if none
FirstLine(key) ==
    LET is == {i \in DOMAIN call.master_display :
                  clean_text(call.master_display[i]) = key}
    IN  IF is = {} THEN 0 ELSE CHOOSE i \in is : \A j \in is : i <= j

(* C13: the index maps every key to the first master line that normalises  *)
(* to it, and a channel accepted by its normalised name is given that       *)
(* line's name.                                                             *)
C13_FirstLineWins ==
    (call.op = "match" /\ call.step >= 1) =>
        /\ \A key \in DOMAIN call.master_cleaned :
              /\ FirstLine(key) # 0
              /\ call.master_cleaned[key] = call.master_display[FirstLine(key)]
        /\ \A i \in DOMAIN call.master_display :
              clean_text(call.master_display[i]) \in DOMAIN call.master_cleaned
        /\ (/\ call.step = 2
            /\ Lower(call.elem.id) \notin DOMAIN EPG_ALIASES
            /\ Lower(call.elem.id) \in call.w.allowed_channel_ids)
              => call.w.channel_id_to_display[Lower(call.elem.id)]
                    = call.master_display[FirstLine(clean_text(NameOf(call.elem)))]

\* whether a occurs in b
IsSubstring(a, b) ==
    \E i \in 1..(Len(b) - Len(a) + 1) : Slice(b, i, i + Len(a) - 1) = a

\* the master lines whose key holds, or is held by, the normalised name
SubstringLines(name) ==
    {i \in DOMAIN call.master_display :
        LET key == clean_text(call.master_display[i])
        IN  /\ key # <<>>
            /\ (IsSubstring(name, key) \/ IsSubstring(key, name))}

(* C14: a channel whose id is no alias and whose normalised name is no      *)
(* master key, but occurs in a master key or has one occurring in it, is    *)
(* accepted and mapped to the first such master line.                       *)
C14_SubstringTier ==
    (call.op = "match" /\ call.step = 2) =>
        LET name == clean_text(NameOf(call.elem))
            lines == SubstringLines(name)
        IN  (/\ Lower(call.elem.id) \notin DOMAIN EPG_ALIASES
             /\ name # <<>>
             /\ name \notin DOMAIN call.master_cleaned
             /\ lines # {})
               => /\ Lower(call.elem.id) \in call.w.allowed_channel_ids
                  /\ Lower(call.elem.id) \in DOMAIN call.w.channel_id_to_display
                  /\ call.w.channel_id_to_display[Lower(call.elem.id)]
                        = call.master_display[CHOOSE i \in lines : \A j \in lines : i <= j]

(* C16: no key of the index is the empty string, and a channel whose id is  *)
(* no alias and whose name normalises to the empty string is not accepted.  *)
C16_NoEmptyKey ==
    (call.op = "match" /\ call.step >= 1) =>
        /\ <<>> \notin DOMAIN call.master_cleaned
        /\ (/\ call.step = 2
            /\ Lower(call.elem.id) \notin DOMAIN EPG_ALIASES
            /\ clean_text(NameOf(call.elem)) = <<>>)
              => Lower(call.elem.id) \notin call.w.allowed_channel_ids

\* what a walk has accepted and kept, without the positions it read at
Gathered(wk) ==
    [allowed_channel_ids |-> wk.allowed_channel_ids,
     channel_id_to_display |-> wk.channel_id_to_display,
     programmes |-> [i \in DOMAIN wk.programmes |-> wk.programmes[i].elem]]

\* whether the first 14 characters of a start attribute are YYYYMMDDHHMMSS
IsTimestamp(start_str) == start_str.kind = "time"

(* C15: a programme whose start attribute has no 14-character timestamp at  *)
(* its front is dropped and the walk goes on: the dedup set, the accepted   *)
(* channels and the kept programmes of the walk and of the run are as       *)
(* before, and whatever element comes next is handled as it would have been *)
(* without the malformed programme.                                         *)
C15_MalformedStartDropped ==
    [][\A elem \in ProgrammeElems :
          (/\ w'.elem = elem
           /\ ProgrammeElem(elem)
           /\ elem.start # NoStart
           /\ ~IsTimestamp(elem.start))
              => /\ pc' = pc
                 /\ seen_programmes' = seen_programmes
                 /\ Gathered(w') = Gathered(w)
                 /\ w'.cutoff = w.cutoff /\ w'.local_only = w.local_only
                 /\ all_channel_ids' = all_channel_ids
                 /\ all_programmes' = all_programmes
                 /\ channel_id_to_display' = channel_id_to_display
                 /\ \A next \in ChannelElems :
                       Gathered(ChannelStep(Advance(w', next), next, master_cleaned',
                                            allowed_master_channels'))
                         = Gathered(ChannelStep(Advance(w, next), next, master_cleaned,
                                                allowed_master_channels))
                 /\ \A next \in ProgrammeElems :
                       LET with == ProgrammeStep(Advance(w', next), seen_programmes', next)
                           without == ProgrammeStep(Advance(w, next), seen_programmes, next)
                       IN  /\ Gathered(with.w) = Gathered(without.w)
                           /\ with.seen = without.seen]_vars

(* C17: in the document written, the channel attribute of every programme  *)
(* element is, character for character, the id attribute of one of the      *)
(* document's channel elements.                                             *)
C17_ProgrammesReferToChannels ==
    pc = "done" =>
        \A j \in ProgrammesOf(output) :
            \E i \in ChannelsOf(output) : output[i].id = output[j].elem.channel

====
